---- MODULE Spec2Model ----
(***************************************************************************)
(* A model of rain's forecast command (internal/cmd/forecast/forecast.go): *)
(* predict walks the Resources of a parsed template, forecastForType runs  *)
(* the generic checks and the registered forecaster for each resource, and *)
(* the accumulated Forecast decides the verdict and the exit status.       *)
(***************************************************************************)
EXTENDS Integers, Sequences, FiniteSets, TLC

VARIABLES
    resources,    \* the template's Resources node: NoResources, or the resources in document order
    dc,           \* dc.Params of the deploy configuration
    stackExists,  \* whether the target stack already exists
    callerArn,    \* what iam.GetCallerArn returns: [err, tokens]
    SkipIAM,      \* --skip-iam
    ResourceType, \* --type ("" is no filter)
    all,          \* --all
    pc,           \* position in Cmd.Run / predict / forecastForType
    i,            \* predict's loop position: the number of the current resource
    LineNumber,   \* the package variable LineNumber
    forecast,     \* predict's top-level Forecast
    fc,           \* forecastForType's local Forecast
    permIdx,      \* checkPermissions: the authorization actions evaluated so far
    ret,          \* the Forecast forecastForType returned
    output,       \* the lines printed by predict
    result,       \* predict's return value, "none" until it returns
    exitCode,     \* the process's exit status, -1 while it runs
    steps,        \* history: per resource, the steps of forecastForType that ran
    added,        \* history: every message recorded by a check, in recording order
    permErr,      \* history: the resources whose permission check returned an error
    estimates,    \* history: per resource, the action and the estimate forecastForType inferred
    parsed,       \* history: the Resources node as the parser produced it
    run,          \* the number of the run of predict on this template: 1 or 2
    first,        \* history: what the first run probed, recorded and returned
    account,      \* CloudFormation: every stack of the account, [StackName, StackStatus]
    pageSize,     \* CloudFormation: the number of summaries on a page of ListStacks
    changeSet,    \* CloudFormation: the change set, [present, type, status]
    cpc,          \* position in the function of package cfn that was called
    op,           \* the function of package cfn that was called, "" when none
    token,        \* ListStacks: the NextToken to send, 0 for nil
    stacks,       \* ListStacks: the summaries appended so far
    cerr,         \* the error the function returns, "nil" for none
    existsRes,    \* StackExists: the boolean it returns
    changeSetType,\* CreateChangeSet: the local changeSetType
    observed,     \* history: the last answer a describe call gave, [err, n, status]
    fetched       \* history: the pages ListStacks was given, in the order of the requests

vars == <<resources, dc, stackExists, callerArn, SkipIAM, ResourceType, all, pc, i,
          LineNumber, forecast, fc, permIdx, ret, output, result, exitCode,
          steps, added, permErr, estimates, parsed, run, first,
          account, pageSize, changeSet, cpc, op, token, stacks, cerr, existsRes,
          changeSetType, observed, fetched>>

\* the state of package cfn and of the CloudFormation service
cfnVars == <<account, pageSize, changeSet, cpc, op, token, stacks, cerr, existsRes,
             changeSetType, observed, fetched>>

\* the state of package forecast
forecastVars == <<resources, dc, stackExists, callerArn, SkipIAM, ResourceType, all, pc, i,
                  LineNumber, forecast, fc, permIdx, ret, output, result, exitCode,
                  steps, added, permErr, estimates, parsed, run, first>>

flags == <<dc, stackExists, callerArn, SkipIAM, ResourceType, all>>

inputs == <<flags, parsed, run, first, cfnVars>>

-----------------------------------------------------------------------------
(* Bounds *)

MaxRes == 2

\* the nesting depth of the Properties trees that reference resolution is tried on
MaxDepth == 2

\* the number of stacks of the account, deleted ones included
MaxStacks == 3

-----------------------------------------------------------------------------
(* The parsed template *)

\* typeNode == nil: the resource has no Type
NoType == "nil"

S3Bucket == "AWS::S3::Bucket"
SNSTopic == "AWS::SNS::Topic"

Scalar(v) == [Kind |-> "ScalarNode", Value |-> v, Content |-> <<>>]
Mapping(c) == [Kind |-> "MappingNode", Value |-> "", Content |-> c]
Sequence(c) == [Kind |-> "SequenceNode", Value |-> "", Content |-> c]

\* props == nil: the resource has no Properties
NoProps == [Kind |-> "nil", Value |-> "", Content |-> <<>>]

Ref(p) == Mapping(<<Scalar("Ref"), Scalar(p)>>)

\* Properties subtrees of the resources of the template.
PropsRefs ==
    Mapping(<<Scalar("BucketName"), Ref("Name"),
              Scalar("Tags"), Sequence(<<Mapping(<<Scalar("Value"), Ref("Other")>>)>>)>>)
PropsLiteral == Mapping(<<Scalar("TopicName"), Scalar("topic")>>)

\* (Type, Properties) of a resource of the template.
ResourceChoices ==
    { <<S3Bucket, PropsRefs>>, <<SNSTopic, PropsLiteral>>, <<NoType, NoProps>> }

\* The line of the logical id of resource n (r.Line) and the line of its
\* mapping node (resource.Line) in a block-style document.
KeyLine(n) == 10 * n
ValueLine(n) == 10 * n + 1

Resource(n, c) ==
    [logicalId |-> n, keyLine |-> KeyLine(n), Line |-> ValueLine(n),
     Type |-> c[1], Properties |-> c[2]]

\* resources == nil: the template has no Resources section
NoResources == [present |-> FALSE, Content |-> <<>>]

Templates ==
    {NoResources} \cup
    UNION { { [present |-> TRUE, Content |-> [n \in 1..len |-> Resource(n, ch[n])]]
              : ch \in [1..len -> ResourceChoices] }
            : len \in 0..MaxRes }

\* dc.Params of the run: "Name" is set, "Other" is not.
DeployConfigs ==
    { << [ParameterKey |-> "Name", ParameterValue |-> "my-bucket"] >> }

CallerArns ==
    { [err |-> TRUE, tokens |-> 0], [err |-> FALSE, tokens |-> 5],
      [err |-> FALSE, tokens |-> 6], [err |-> FALSE, tokens |-> 7] }

-----------------------------------------------------------------------------
(* Forecast *)

makeForecast(typeName, logicalId) ==
    [TypeName |-> typeName, LogicalId |-> logicalId, Passed |-> <<>>, Failed |-> <<>>]

\* Forecast{}
EmptyForecast == [TypeName |-> "", LogicalId |-> 0, Passed |-> <<>>, Failed |-> <<>>]

GetNumChecked(f) == Len(f.Passed) + Len(f.Failed)
GetNumFailed(f) == Len(f.Failed)
GetNumPassed(f) == Len(f.Passed)

\* Mutants of Append: the receiver's lists are replaced, or the argument's
\* messages are put in front.
ForecastAppendReplace(f, g) ==
    [f EXCEPT !.Failed = g.Failed, !.Passed = g.Passed]

ForecastAppendInFront(f, g) ==
    [f EXCEPT !.Failed = g.Failed \o f.Failed, !.Passed = g.Passed \o f.Passed]

ForecastAppend(f, g) ==
    [f EXCEPT !.Failed = f.Failed \o g.Failed, !.Passed = f.Passed \o g.Passed]

\* fmt.Sprintf("%v: %v %v - %v", LineNumber, f.TypeName, f.LogicalId, message)
Msg(line, f, message) ==
    [line |-> line, typeName |-> f.TypeName, logicalId |-> f.LogicalId, message |-> message]

\* Mutant: a failure is put on both lists.
AddFailureToBoth(f, line, passed, message) ==
    IF passed
    THEN [f EXCEPT !.Passed = Append(f.Passed, Msg(line, f, message))]
    ELSE [f EXCEPT !.Failed = Append(f.Failed, Msg(line, f, message)),
                   !.Passed = Append(f.Passed, Msg(line, f, message))]

Add(f, line, passed, message) ==
    IF passed
    THEN [f EXCEPT !.Passed = Append(f.Passed, Msg(line, f, message))]
    ELSE [f EXCEPT !.Failed = Append(f.Failed, Msg(line, f, message))]

IsPrefix(s, t) == Len(s) <= Len(t) /\ \A k \in 1..Len(s) : s[k] = t[k]

\* history of what the checks recorded
Note(log, n, passed, m) == Append(log, [res |-> n, passed |-> passed, msg |-> m])

-----------------------------------------------------------------------------
(* Reference resolution *)

\* The value of the first parameter of params whose key is name; the loop of
\* resolveParamRefs replaces the parent at the first match, and the parent is
\* no MappingNode afterwards.
HasParam(params, name) == \E k \in 1..Len(params) : params[k].ParameterKey = name

ParamValue(params, name) ==
    LET k == CHOOSE k \in 1..Len(params) :
                 /\ params[k].ParameterKey = name
                 /\ \A j \in 1..(k - 1) : params[j].ParameterKey # name
    IN  params[k].ParameterValue

\* Mutant: the name under Ref is replaced, and the node stays a reference.
ReplacementKeepsRef(value) == Ref(value)

\* *parent = yaml.Node{Kind: yaml.ScalarNode, Value: ...}
Replacement(value) == Scalar(value)

RECURSIVE resolveParamRefs(_, _)
RECURSIVE resolvePairs(_, _, _)

\* The loop "for i := 0; i < len(parent.Content); i += 2" over the key/value
\* pairs of parent, from pair idx on: what parent is afterwards.
resolvePairs(parent, idx, params) ==
    IF idx + 1 > Len(parent.Content) THEN parent
    ELSE LET name == parent.Content[idx].Value
             prop == parent.Content[idx + 1]
         IN  IF name = "Ref" /\ prop.Kind = "ScalarNode"
             THEN IF HasParam(params, prop.Value) /\ parent.Kind = "MappingNode"
                  THEN resolvePairs(Replacement(ParamValue(params, prop.Value)), idx + 2, params)
                  ELSE resolvePairs(parent, idx + 2, params)
             ELSE resolvePairs(
                      [parent EXCEPT !.Content[idx + 1] = resolveParamRefs(prop, params)],
                      idx + 2, params)

\* Mutant: sequences are not descended into.
resolveParamRefsMappingsOnly(prop, params) ==
    IF prop.Kind = "MappingNode" THEN resolvePairs(prop, 1, params) ELSE prop

\* resolveParamRefs on a node that is not the scalar of a Ref: what the node
\* is afterwards.
resolveParamRefs(prop, params) ==
    IF prop.Kind = "MappingNode" THEN resolvePairs(prop, 1, params)
    ELSE IF prop.Kind = "SequenceNode"
    THEN [prop EXCEPT !.Content =
             [k \in 1..Len(prop.Content) |-> resolveParamRefs(prop.Content[k], params)]]
    ELSE prop

\* resolveRefs: the Properties of the resource afterwards.
resolveRefs(props, params) ==
    IF props = NoProps THEN props ELSE resolvePairs(props, 1, params)

-----------------------------------------------------------------------------
(* Collaborators that the forecast package calls *)

\* Mutant: the second resource is always created.
ActionPerResource == IF stackExists /\ i # 2 THEN "Update" ELSE "Create"

\* The StackAction forecastForType infers.
Action == IF stackExists THEN "Update" ELSE "Create"

\* The authorization actions the lifecycle operation needs on the type.
RequiredActions(typeName, action) ==
    IF typeName = S3Bucket
    THEN IF action = "Create" THEN <<"s3:CreateBucket">>
                              ELSE <<"s3:PutBucketTagging", "s3:PutBucketPolicy">>
    ELSE IF action = "Create" THEN <<"sns:CreateTopic", "sns:TagResource">>
                              ELSE <<"sns:SetTopicAttributes">>

PermissionMessage(allowed, a) ==
    IF allowed THEN "Has permission " \o a ELSE "Insufficient permissions " \o a

\* GetResourceEstimate: the seconds of the table, 1 when there is no entry.
GetResourceEstimate(typeName, action) ==
    IF typeName = S3Bucket THEN (IF action = "Create" THEN 5 ELSE 3) ELSE 1

\* GetResourceEstimate reports an error: the table has no entry for the type.
EstimateErr(typeName, action) == typeName # S3Bucket

\* forecasters: the types with a registered prediction function.
forecasters == {S3Bucket}

\* What a prediction function found: one pass/fail per check it made.
ForecasterFindings == { <<TRUE>>, <<FALSE>>, <<TRUE, FALSE>> }

ForecasterMessage(k) == IF k = 1 THEN "forecaster check 1" ELSE "forecaster check 2"

RECURSIVE AddAll(_, _, _, _)
AddAll(f, line, findings, k) ==
    IF k > Len(findings) THEN f
    ELSE AddAll(Add(f, line, findings[k], ForecasterMessage(k)), line, findings, k + 1)

\* fn(input): the isolated Forecast of the registered prediction function.
RunForecasterFn(typeName, logicalId, line, findings) ==
    AddAll(makeForecast(typeName, logicalId), line, findings, 1)

RECURSIVE NoteAll(_, _, _, _)
NoteAll(log, n, f, k) ==
    IF k > Len(f.Failed) + Len(f.Passed) THEN log
    ELSE IF k <= Len(f.Failed)
    THEN NoteAll(Note(log, n, FALSE, f.Failed[k]), n, f, k + 1)
    ELSE NoteAll(Note(log, n, TRUE, f.Passed[k - Len(f.Failed)]), n, f, k + 1)

\* No estimate was inferred for the resource (yet).
NoEstimate == [action |-> "", est |-> 0]

\* There was no earlier run of predict on the template.
NoRun == [resources |-> NoResources, added |-> <<>>, permErr |-> {},
          forecast |-> EmptyForecast, result |-> "none",
          steps |-> [n \in 1..MaxRes |-> <<>>]]

-----------------------------------------------------------------------------
(* Package cfn: the statuses *)

\* A status is the sequence of the words that its name has between the
\* underscores: "UPDATE_COMPLETE" is <<"UPDATE", "COMPLETE">>.
CREATE_IN_PROGRESS == <<"CREATE", "IN", "PROGRESS">>
CREATE_FAILED == <<"CREATE", "FAILED">>
CREATE_COMPLETE == <<"CREATE", "COMPLETE">>
ROLLBACK_IN_PROGRESS == <<"ROLLBACK", "IN", "PROGRESS">>
ROLLBACK_FAILED == <<"ROLLBACK", "FAILED">>
ROLLBACK_COMPLETE == <<"ROLLBACK", "COMPLETE">>
DELETE_IN_PROGRESS == <<"DELETE", "IN", "PROGRESS">>
DELETE_FAILED == <<"DELETE", "FAILED">>
DELETE_COMPLETE == <<"DELETE", "COMPLETE">>
UPDATE_IN_PROGRESS == <<"UPDATE", "IN", "PROGRESS">>
UPDATE_COMPLETE_CLEANUP_IN_PROGRESS == <<"UPDATE", "COMPLETE", "CLEANUP", "IN", "PROGRESS">>
UPDATE_COMPLETE == <<"UPDATE", "COMPLETE">>
UPDATE_ROLLBACK_IN_PROGRESS == <<"UPDATE", "ROLLBACK", "IN", "PROGRESS">>
UPDATE_ROLLBACK_FAILED == <<"UPDATE", "ROLLBACK", "FAILED">>
UPDATE_ROLLBACK_COMPLETE_CLEANUP_IN_PROGRESS ==
    <<"UPDATE", "ROLLBACK", "COMPLETE", "CLEANUP", "IN", "PROGRESS">>
UPDATE_ROLLBACK_COMPLETE == <<"UPDATE", "ROLLBACK", "COMPLETE">>
REVIEW_IN_PROGRESS == <<"REVIEW", "IN", "PROGRESS">>

\* the statuses of a change set
CREATE_PENDING == <<"CREATE", "PENDING">>
FAILED == <<"FAILED">>

liveStatuses ==
    { CREATE_IN_PROGRESS, CREATE_FAILED, CREATE_COMPLETE, ROLLBACK_IN_PROGRESS,
      ROLLBACK_FAILED, ROLLBACK_COMPLETE, DELETE_IN_PROGRESS, DELETE_FAILED,
      UPDATE_IN_PROGRESS, UPDATE_COMPLETE_CLEANUP_IN_PROGRESS, UPDATE_COMPLETE,
      UPDATE_ROLLBACK_IN_PROGRESS, UPDATE_ROLLBACK_FAILED,
      UPDATE_ROLLBACK_COMPLETE_CLEANUP_IN_PROGRESS, UPDATE_ROLLBACK_COMPLETE,
      REVIEW_IN_PROGRESS }

\* "_COMPLETE" and "_FAILED": a suffix that begins with an underscore has an
\* empty first word.
SuffixComplete == <<"", "COMPLETE">>
SuffixFailed == <<"", "FAILED">>

\* strings.HasSuffix(status, suffix), for a suffix that begins with an
\* underscore: the words after the underscore are the last words of the
\* status, and the status has a word before them.
HasSuffix(status, suffix) ==
    /\ Len(status) >= Len(suffix)
    /\ \A k \in 2..Len(suffix) : status[Len(status) - Len(suffix) + k] = suffix[k]

-----------------------------------------------------------------------------
(* Package cfn: the CloudFormation service *)

\* The name of the stack that the functions are called with, and another.
StackName == "s"
StackNames == {StackName, "t"}

AccountStatuses == {CREATE_COMPLETE, UPDATE_IN_PROGRESS, DELETE_COMPLETE}

RECURSIVE SeqsUpTo(_, _)
SeqsUpTo(S, n) ==
    IF n = 0 THEN {<<>>}
    ELSE LET shorter == SeqsUpTo(S, n - 1)
         IN  shorter \cup {Append(q, x) : q \in shorter, x \in S}

\* The stacks of the account, in the order the service lists them.
Accounts ==
    SeqsUpTo([StackName : StackNames, StackStatus : AccountStatuses], MaxStacks)

\* The stacks the service lists under StackStatusFilter.
Listed(filter) ==
    LET Live(st) == st.StackStatus \in filter
    IN  SelectSeq(account, Live)

Min(a, b) == IF a < b THEN a ELSE b

\* The page the service answers to a request with the token (0 is nil: the
\* first page): its summaries and its NextToken (0 is nil: the last page).
Page(filter, tok) ==
    LET all_ == Listed(filter)
        from == IF tok = 0 THEN 1 ELSE tok
        to == Min(from + pageSize - 1, Len(all_))
    IN  [StackSummaries |-> SubSeq(all_, from, to),
         NextToken |-> IF to < Len(all_) THEN to + 1 ELSE 0]

\* The statuses DescribeChangeSet can show.
ChangeSetStatuses ==
    {CREATE_PENDING, CREATE_IN_PROGRESS, CREATE_COMPLETE, DELETE_FAILED, FAILED}

NoChangeSet == [present |-> FALSE, type |-> "", status |-> <<>>]

\* What DescribeStacks can answer: an error, a smithy.GenericAPIError ("api")
\* or another one, or no error and a number of stacks, the first with a status.
DescribeStacksStatuses ==
    {CREATE_IN_PROGRESS, CREATE_COMPLETE, CREATE_FAILED, ROLLBACK_IN_PROGRESS,
     UPDATE_COMPLETE_CLEANUP_IN_PROGRESS, UPDATE_ROLLBACK_FAILED, REVIEW_IN_PROGRESS}

NoAnswer == [err |-> "", n |-> 0, status |-> <<>>]

DescribeStacksAnswers ==
    {[err |-> e, n |-> 0, status |-> <<>>] : e \in {"api", "other", "nil"}}
    \cup {[err |-> "nil", n |-> n, status |-> st] : n \in 1..2, st \in DescribeStacksStatuses}

\* No function of package cfn was called.
CfnIdle ==
    /\ account = <<>>
    /\ pageSize = 1
    /\ changeSet = NoChangeSet
    /\ cpc = "idle"
    /\ op = ""
    /\ token = 0
    /\ stacks = <<>>
    /\ cerr = "nil"
    /\ existsRes = FALSE
    /\ changeSetType = ""
    /\ observed = NoAnswer
    /\ fetched = <<>>

-----------------------------------------------------------------------------
(* Package cfn: ListStacks and StackExists *)

\* A function of package cfn is called, with the account as it is then.
InitCfn ==
    /\ account \in Accounts
    /\ pageSize \in 1..2
    /\ changeSet = NoChangeSet
    /\ cpc = "idle"
    /\ op = ""
    /\ token = 0
    /\ stacks = <<>>
    /\ cerr = "nil"
    /\ existsRes = FALSE
    /\ changeSetType = ""
    /\ observed = NoAnswer
    /\ fetched = <<>>
    /\ resources = NoResources
    /\ dc = <<>>
    /\ stackExists = FALSE
    /\ callerArn = [err |-> FALSE, tokens |-> 6]
    /\ SkipIAM = FALSE
    /\ ResourceType = ""
    /\ all = FALSE
    /\ pc = "cfn"
    /\ i = 0
    /\ LineNumber = 0
    /\ forecast = makeForecast("", 0)
    /\ fc = EmptyForecast
    /\ permIdx = 0
    /\ ret = EmptyForecast
    /\ output = <<>>
    /\ result = "none"
    /\ exitCode = -1
    /\ steps = [n \in 1..MaxRes |-> <<>>]
    /\ added = <<>>
    /\ permErr = {}
    /\ estimates = [n \in 1..MaxRes |-> NoEstimate]
    /\ parsed = resources
    /\ run = 1
    /\ first = NoRun

\* ListStacks, StackExists or CreateChangeSet is called: each begins with
\* the loop of ListStacks, stacks empty and token nil.
CallListStacks ==
    /\ cpc = "idle"
    /\ \E f \in {"ListStacks", "StackExists", "CreateChangeSet"} : op' = f
    /\ cpc' = "ListStacks"
    /\ UNCHANGED <<account, pageSize, changeSet, token, stacks, cerr, existsRes,
                   changeSetType, observed, fetched, forecastVars>>

\* Mutant: the page replaces what was fetched before.
appendReplacing(list, summaries) == summaries

\* stacks = append(stacks, res.StackSummaries...)
appendSummaries(list, summaries) == list \o summaries

\* for _, s := range stacks { if *s.StackName == stackName { return true, nil } }
HasName(list, name) == \E k \in 1..Len(list) : list[k].StackName = name

\* Where the caller of ListStacks goes on when StackExists has returned.
AfterStackExists(f) == IF f = "CreateChangeSet" THEN "CreateChangeSet" ELSE "done"

\* One turn of the loop of ListStacks whose request succeeds; after the
\* last page ListStacks returns, and StackExists looks for the name.
ListStacksPage ==
    /\ cpc = "ListStacks"
    /\ LET res == Page(liveStatuses, token)
       IN  /\ stacks' = appendSummaries(stacks, res.StackSummaries)
           /\ fetched' = Append(fetched, res.StackSummaries)
           /\ IF res.NextToken = 0
              THEN /\ token' = token
                   /\ existsRes' = (op # "ListStacks" /\ HasName(stacks', StackName))
                   /\ cpc' = AfterStackExists(op)
              ELSE /\ token' = res.NextToken
                   /\ UNCHANGED <<existsRes, cpc>>
    /\ UNCHANGED <<account, pageSize, changeSet, op, cerr, changeSetType, observed,
                   forecastVars>>

\* The request of a page errors: ListStacks returns stacks and the error,
\* StackExists returns false and the error, CreateChangeSet "" and the error.
ListStacksError ==
    /\ cpc = "ListStacks"
    /\ cerr' = "ListStacks"
    /\ existsRes' = FALSE
    /\ cpc' = "done"
    /\ UNCHANGED <<account, pageSize, changeSet, op, token, stacks, changeSetType,
                   observed, fetched, forecastVars>>

-----------------------------------------------------------------------------
(* Package cfn: CreateChangeSet *)

\* Mutant: the change set is always one that creates.
changeSetTypeAlwaysCreate(exists) == "CREATE"

\* changeSetType := "CREATE"; if exists { changeSetType = "UPDATE" }
changeSetTypeFor(exists) == IF exists THEN "UPDATE" ELSE "CREATE"

\* StackExists has returned true or false: the change set is requested, and
\* the service makes it or answers with an error.
CreateChangeSetRequest ==
    /\ cpc = "CreateChangeSet"
    /\ changeSetType' = changeSetTypeFor(existsRes)
    /\ \/ /\ changeSet' = [present |-> TRUE, type |-> changeSetType',
                           status |-> CREATE_PENDING]
          /\ cpc' = "DescribeChangeSet"
          /\ cerr' = cerr
       \/ /\ cerr' = "CreateChangeSet"
          /\ cpc' = "done"
          /\ changeSet' = changeSet
    /\ UNCHANGED <<account, pageSize, op, token, stacks, existsRes, observed, fetched,
                   forecastVars>>

\* The service works on the change set, or somebody deletes it.
ChangeSetProgress ==
    /\ changeSet.present
    /\ cpc = "DescribeChangeSet"
    /\ \E st \in ChangeSetStatuses \ {changeSet.status} :
          changeSet' = [changeSet EXCEPT !.status = st]
    /\ UNCHANGED <<account, pageSize, cpc, op, token, stacks, cerr, existsRes,
                   changeSetType, observed, fetched, forecastVars>>

\* strings.HasSuffix(status, "_COMPLETE")
changeSetComplete(status) == HasSuffix(status, SuffixComplete)

\* One turn of the polling loop: DescribeChangeSet errors, or shows the status.
DescribeChangeSet ==
    /\ cpc = "DescribeChangeSet"
    /\ \/ /\ observed' = [err |-> "other", n |-> 0, status |-> <<>>]
          /\ cerr' = "DescribeChangeSet"
          /\ cpc' = "done"
       \/ /\ observed' = [err |-> "nil", n |-> 1, status |-> changeSet.status]
          /\ IF changeSet.status = FAILED
             THEN cerr' = "FAILED" /\ cpc' = "done"
             ELSE IF changeSetComplete(changeSet.status)
             THEN cerr' = cerr /\ cpc' = "done"
             ELSE cerr' = cerr /\ cpc' = cpc
    /\ UNCHANGED <<account, pageSize, changeSet, op, token, stacks, existsRes,
                   changeSetType, fetched, forecastVars>>

-----------------------------------------------------------------------------
(* Package cfn: WaitUntilStackExists and WaitUntilStackCreateComplete *)

CallWaitUntilStackExists ==
    /\ cpc = "idle"
    /\ op' = "WaitUntilStackExists"
    /\ cpc' = "WaitUntilStackExists"
    /\ UNCHANGED <<account, pageSize, changeSet, token, stacks, cerr, existsRes,
                   changeSetType, observed, fetched, forecastVars>>

\* errors.As(err, &apiErr), apiErr a *smithy.GenericAPIError
isAPIError(e) == e = "api"

\* One turn of the loop of WaitUntilStackExists.
DescribeStacksUntilExists ==
    /\ cpc = "WaitUntilStackExists"
    /\ \E a \in DescribeStacksAnswers :
          /\ observed' = a
          /\ IF a.err = "nil" THEN cerr' = cerr /\ cpc' = "done"
             ELSE IF ~isAPIError(a.err) THEN cerr' = "DescribeStacks" /\ cpc' = "done"
             ELSE cerr' = cerr /\ cpc' = cpc
    /\ UNCHANGED <<account, pageSize, changeSet, op, token, stacks, existsRes,
                   changeSetType, fetched, forecastVars>>

CallWaitUntilStackCreateComplete ==
    /\ cpc = "idle"
    /\ op' = "WaitUntilStackCreateComplete"
    /\ cpc' = "WaitUntilStackCreateComplete"
    /\ UNCHANGED <<account, pageSize, changeSet, token, stacks, cerr, existsRes,
                   changeSetType, observed, fetched, forecastVars>>

\* Mutant: only a completed stack ends the loop.
stackSettledCompleteOnly(status) == HasSuffix(status, SuffixComplete)

\* strings.HasSuffix(status, "_COMPLETE") || strings.HasSuffix(status, "_FAILED")
stackSettled(status) == HasSuffix(status, SuffixComplete) \/ HasSuffix(status, SuffixFailed)

\* One turn of the loop of WaitUntilStackCreateComplete.
DescribeStacksUntilComplete ==
    /\ cpc = "WaitUntilStackCreateComplete"
    /\ \E a \in DescribeStacksAnswers :
          /\ observed' = a
          /\ IF a.err # "nil" THEN cerr' = "DescribeStacks" /\ cpc' = "done"
             ELSE IF a.n # 1 THEN cerr' = "Stack not found" /\ cpc' = "done"
             ELSE IF stackSettled(a.status) THEN cerr' = cerr /\ cpc' = "done"
             ELSE cerr' = cerr /\ cpc' = cpc
    /\ UNCHANGED <<account, pageSize, changeSet, op, token, stacks, existsRes,
                   changeSetType, fetched, forecastVars>>

NextCfn ==
    \/ CallListStacks
    \/ ListStacksPage
    \/ ListStacksError
    \/ CreateChangeSetRequest
    \/ ChangeSetProgress
    \/ DescribeChangeSet
    \/ CallWaitUntilStackExists
    \/ DescribeStacksUntilExists
    \/ CallWaitUntilStackCreateComplete
    \/ DescribeStacksUntilComplete

SpecCfn == InitCfn /\ [][NextCfn]_vars

\* The polling loop of CreateChangeSet goes on: after time.Sleep it asks again.
SpecCfnFair == SpecCfn /\ WF_vars(DescribeChangeSet)

-----------------------------------------------------------------------------
(* Cmd.Run and predict *)

Init ==
    /\ resources \in Templates
    /\ dc \in DeployConfigs
    /\ stackExists \in BOOLEAN
    /\ callerArn \in CallerArns
    /\ SkipIAM \in BOOLEAN
    /\ ResourceType \in {"", S3Bucket, SNSTopic}
    /\ all \in BOOLEAN
    /\ pc = "predict"
    /\ i = 0
    /\ LineNumber = 0
    /\ forecast = makeForecast("", 0)
    /\ fc = EmptyForecast
    /\ permIdx = 0
    /\ ret = EmptyForecast
    /\ output = <<>>
    /\ result = "none"
    /\ exitCode = -1
    /\ steps = [n \in 1..MaxRes |-> <<>>]
    /\ added = <<>>
    /\ permErr = {}
    /\ estimates = [n \in 1..MaxRes |-> NoEstimate]
    /\ parsed = resources
    /\ run = 1
    /\ first = NoRun
    /\ CfnIdle

NumResources == Len(resources.Content)
r == resources.Content[i]

\* The external probes are asked about the resource that they were asked
\* about in the earlier run of predict on the template.
SameQuery ==
    /\ run = 2
    /\ i \in 1..Len(first.resources.Content)
    /\ r = first.resources.Content[i]

\* The answers recorded for resource n, in the order they were given.
Flags(log, n) ==
    LET Mine(e) == e.res = n
        mine == SelectSeq(log, Mine)
    IN  [k \in 1..Len(mine) |-> mine[k].passed]

\* The probes answer the same query as they answered it in the earlier run:
\* the next answer, the last answers, the error of the policy evaluation.
SameAnswer(log) == SameQuery => IsPrefix(Flags(log, i), Flags(first.added, i))

SameFindings(log) == SameQuery => Flags(log, i) = Flags(first.added, i)

SameError ==
    SameQuery => (i \in first.permErr /\ Flags(added, i) = Flags(first.added, i))

\* A panic reaches the process boundary: nothing more runs, the status is 2.
Panic ==
    /\ pc' = "panic"
    /\ exitCode' = 2
    /\ UNCHANGED <<resources, forecast, fc, permIdx, ret, output, result,
                   steps, added, permErr>>

\* predict up to the resource loop: "Expected to find a Resources section".
PredictNoResources ==
    /\ pc = "predict"
    /\ ~resources.present
    /\ Panic
    /\ UNCHANGED <<i, LineNumber, inputs, estimates>>

PredictBegin ==
    /\ pc = "predict"
    /\ resources.present
    /\ pc' = "loop"
    /\ i' = 1
    /\ UNCHANGED <<resources, LineNumber, forecast, fc, permIdx, ret, output, result,
                   exitCode, steps, added, permErr, inputs, estimates>>

\* Mutant: a resource without Type is skipped.
LoopMissingTypeSkips ==
    /\ pc = "loop"
    /\ i <= NumResources
    /\ r.Type = NoType
    /\ LineNumber' = r.keyLine
    /\ i' = i + 1
    /\ UNCHANGED <<resources, pc, forecast, fc, permIdx, ret, output, result, exitCode,
                   steps, added, permErr, inputs, estimates>>

\* The loop body up to the call of forecastForType, for a resource without Type.
LoopMissingType ==
    /\ pc = "loop"
    /\ i <= NumResources
    /\ r.Type = NoType
    /\ LineNumber' = r.keyLine
    /\ Panic
    /\ UNCHANGED <<i, inputs, estimates>>

\* Mutant: only too few tokens are rejected.
TooFewTokens(arn) == arn.tokens < 6

\* len(arnTokens) != 6
BadTokens(arn) == arn.tokens # 6

\* "unable to get caller arn", "unexpected number of tokens in caller arn".
LoopCallerArnPanic ==
    /\ pc = "loop"
    /\ i <= NumResources
    /\ r.Type # NoType
    /\ callerArn.err \/ BadTokens(callerArn)
    /\ LineNumber' = r.keyLine
    /\ Panic
    /\ UNCHANGED <<i, inputs, estimates>>

\* The loop body up to the call of forecastForType, which starts with makeForecast.
LoopCallForecastForType ==
    /\ pc = "loop"
    /\ i <= NumResources
    /\ r.Type # NoType
    /\ ~callerArn.err
    /\ ~BadTokens(callerArn)
    /\ LineNumber' = r.keyLine
    /\ fc' = makeForecast(r.Type, r.logicalId)
    /\ pc' = "forecastForType"
    /\ UNCHANGED <<resources, i, forecast, permIdx, ret, output, result, exitCode,
                   steps, added, permErr, inputs, estimates>>

-----------------------------------------------------------------------------
(* forecastForType *)

\* Mutant: the empty filter is a filter too.
FilteredOutByEmpty(filter, typeName) == filter # typeName

\* ResourceType != "" && ResourceType != input.typeName
FilteredOut(filter, typeName) == filter # "" /\ filter # typeName

Step(name) == [steps EXCEPT ![i] = Append(@, name)]

\* The --type filter excludes the resource: return the empty forecast.
ForecastForTypeFiltered ==
    /\ pc = "forecastForType"
    /\ FilteredOut(ResourceType, fc.TypeName)
    /\ ret' = fc
    /\ pc' = "append"
    /\ UNCHANGED <<resources, i, LineNumber, forecast, fc, permIdx, output, result,
                   exitCode, steps, added, permErr, inputs, estimates>>

\* Mutant: a lookup error leaves the zero value.
ResourceEstimateNoDefault(typeName, action) ==
    IF EstimateErr(typeName, action) THEN 0 ELSE GetResourceEstimate(typeName, action)

\* est, esterr := GetResourceEstimate(...); if esterr != nil { est = 1 }
ResourceEstimate(typeName, action) ==
    IF EstimateErr(typeName, action) THEN 1 ELSE GetResourceEstimate(typeName, action)

\* resolveRefs(input), then the estimate that is only shown on the spinner.
ResolveRefs ==
    /\ pc = "forecastForType"
    /\ ~FilteredOut(ResourceType, fc.TypeName)
    /\ resources' = [resources EXCEPT
                         !.Content[i].Properties = resolveRefs(r.Properties, dc)]
    /\ estimates' = [estimates EXCEPT
                         ![i] = [action |-> Action,
                                 est |-> ResourceEstimate(fc.TypeName, Action)]]
    /\ steps' = Step("resolveRefs")
    /\ pc' = "exists"
    /\ UNCHANGED <<i, LineNumber, forecast, fc, permIdx, ret, output, result,
                   exitCode, added, permErr, inputs>>

\* The line the message of the existence check carries.
ExistsLine(exists, ambient, resourceLine) == IF exists THEN ambient ELSE resourceLine

ExistsMessage(exists) == IF exists THEN "Already exists" ELSE "Does not exist"

\* Mutant: --skip-iam is ignored.
AfterExistsIgnoringSkip(skip) == "checkPermissions"

\* After the existence check: the permission check unless --skip-iam.
AfterExists(skip) == IF skip THEN "forecaster" ELSE "checkPermissions"

\* cfn.ResourceAlreadyExists answers exists; one message is added either way.
ExistsCheck ==
    /\ pc = "exists"
    /\ \E exists \in BOOLEAN :
          LET line == ExistsLine(exists, LineNumber, r.Line)
              f == Add(fc, line, ~exists, ExistsMessage(exists))
          IN  /\ LineNumber' = line
              /\ fc' = f
              /\ added' = Note(added, i, ~exists, Msg(line, fc, ExistsMessage(exists)))
              /\ SameAnswer(added')
    /\ steps' = Step("exists")
    /\ pc' = AfterExists(SkipIAM)
    /\ UNCHANGED <<resources, i, forecast, permIdx, ret, output, result, exitCode,
                   permErr, inputs, estimates>>

\* checkPermissions(input, &forecast) is entered.
CheckPermissions ==
    /\ pc = "checkPermissions"
    /\ steps' = Step("checkPermissions")
    /\ permIdx' = 0
    /\ pc' = "evaluate"
    /\ UNCHANGED <<resources, i, LineNumber, forecast, fc, ret, output, result,
                   exitCode, added, permErr, inputs, estimates>>

\* One required authorization action is evaluated and allowed or denied.
EvaluateAuthorization ==
    /\ pc = "evaluate"
    /\ permIdx < Len(RequiredActions(fc.TypeName, Action))
    /\ \E allowed \in BOOLEAN :
          LET a == RequiredActions(fc.TypeName, Action)[permIdx + 1]
          IN  /\ fc' = Add(fc, LineNumber, allowed, PermissionMessage(allowed, a))
              /\ added' = Note(added, i, allowed,
                               Msg(LineNumber, fc, PermissionMessage(allowed, a)))
              /\ SameAnswer(added')
    /\ permIdx' = permIdx + 1
    /\ UNCHANGED <<resources, i, LineNumber, forecast, pc, ret, output, result,
                   exitCode, steps, permErr, inputs, estimates>>

\* Mutant: the forecast collected so far is returned.
PermissionErrorReturnsForecast(f) == f

\* "Unable to check permissions": what forecastForType returns, given its forecast.
PermissionErrorReturn(f) == EmptyForecast

\* The policy evaluation itself errors: checkPermissions returns the error.
EvaluateAuthorizationError ==
    /\ pc = "evaluate"
    /\ permIdx < Len(RequiredActions(fc.TypeName, Action))
    /\ SameError
    /\ permErr' = permErr \cup {i}
    /\ ret' = PermissionErrorReturn(fc)
    /\ pc' = "append"
    /\ UNCHANGED <<resources, i, LineNumber, forecast, fc, permIdx, output, result,
                   exitCode, steps, added, inputs, estimates>>

\* Every required action was evaluated: checkPermissions returns nil.
CheckPermissionsDone ==
    /\ pc = "evaluate"
    /\ permIdx = Len(RequiredActions(fc.TypeName, Action))
    /\ pc' = "forecaster"
    /\ UNCHANGED <<resources, i, LineNumber, forecast, fc, permIdx, ret, output,
                   result, exitCode, steps, added, permErr, inputs, estimates>>

\* fn, found := forecasters[input.typeName]
Found(typeName) == typeName \in forecasters

\* forecast.Append(fn(input)), and forecastForType returns its forecast.
RunForecaster ==
    /\ pc = "forecaster"
    /\ Found(fc.TypeName)
    /\ \E findings \in ForecasterFindings :
          LET g == RunForecasterFn(fc.TypeName, fc.LogicalId, LineNumber, findings)
          IN  /\ fc' = ForecastAppend(fc, g)
              /\ ret' = ForecastAppend(fc, g)
              /\ added' = NoteAll(added, i, g, 1)
              /\ SameFindings(added')
    /\ steps' = Step("forecaster")
    /\ pc' = "append"
    /\ UNCHANGED <<resources, i, LineNumber, forecast, permIdx, output, result,
                   exitCode, permErr, inputs, estimates>>

\* No forecaster is registered for the type: forecastForType returns its forecast.
NoForecaster ==
    /\ pc = "forecaster"
    /\ ~Found(fc.TypeName)
    /\ ret' = fc
    /\ pc' = "append"
    /\ UNCHANGED <<resources, i, LineNumber, forecast, fc, permIdx, output, result,
                   exitCode, steps, added, permErr, inputs, estimates>>

\* forecast.Append(forecastForType(input)), and on to the next resource.
AppendForecast ==
    /\ pc = "append"
    /\ forecast' = ForecastAppend(forecast, ret)
    /\ i' = i + 1
    /\ pc' = "loop"
    /\ UNCHANGED <<resources, LineNumber, fc, permIdx, ret, output, result, exitCode,
                   steps, added, permErr, inputs, estimates>>

-----------------------------------------------------------------------------
(* The report and the exit status *)

RECURSIVE SumEstimates(_, _, _)
SumEstimates(content, action, k) ==
    IF k > Len(content) THEN 0
    ELSE GetResourceEstimate(content[k].Type, action) + SumEstimates(content, action, k + 1)

\* PredictTotalEstimate(source, stackExists)
PredictTotalEstimate == SumEstimates(resources.Content, Action, 1)

NoMsg == [line |-> 0, typeName |-> "", logicalId |-> 0, message |-> ""]

\* One printed line: its kind, the counts it shows, the message it shows.
OutLine(kind, n, m, msg) == [kind |-> kind, n |-> n, m |-> m, msg |-> msg]

Reasons(kind, msgs) == [k \in 1..Len(msgs) |-> OutLine(kind, 0, 0, msgs[k])]

\* Mutant: the comparison is off by one.
StormyOffByOne(f) == GetNumFailed(f) >= 0

\* forecast.GetNumFailed() > 0
Stormy(f) == GetNumFailed(f) > 0

\* The lines of the failure report.
StormyOutput(f, showAll) ==
    <<OutLine("stormy", GetNumFailed(f), GetNumChecked(f), NoMsg)>>
    \o Reasons("failed", f.Failed)
    \o (IF showAll
        THEN <<OutLine("passedSummary", GetNumPassed(f), GetNumChecked(f), NoMsg)>>
             \o Reasons("passed", f.Passed)
        ELSE <<>>)

\* The lines of the success report.
ClearOutput(f, showAll, totalSeconds) ==
    <<OutLine("clear", GetNumChecked(f), totalSeconds, NoMsg)>>
    \o (IF showAll THEN Reasons("passed", f.Passed) ELSE <<>>)

\* The resource loop has ended: predict prints the report and returns.
Report ==
    /\ pc = "loop"
    /\ i > NumResources
    /\ IF Stormy(forecast)
       THEN /\ output' = StormyOutput(forecast, all)
            /\ result' = "false"
       ELSE /\ output' = ClearOutput(forecast, all, PredictTotalEstimate)
            /\ result' = "true"
    /\ pc' = "returned"
    /\ UNCHANGED <<resources, i, LineNumber, forecast, fc, permIdx, ret, exitCode,
                   steps, added, permErr, inputs, estimates>>

\* Mutant: the verdict is not looked at.
ExitStatusIgnoringVerdict(res) == 0

\* if !predict(...) { os.Exit(1) }
ExitStatus(res) == IF res = "false" THEN 1 ELSE 0

Exit ==
    /\ pc = "returned"
    /\ exitCode' = ExitStatus(result)
    /\ pc' = "exit"
    /\ UNCHANGED <<resources, i, LineNumber, forecast, fc, permIdx, ret, output,
                   result, steps, added, permErr, inputs, estimates>>

Next ==
    \/ PredictNoResources
    \/ PredictBegin
    \/ LoopMissingType
    \/ LoopCallerArnPanic
    \/ LoopCallForecastForType
    \/ ForecastForTypeFiltered
    \/ ResolveRefs
    \/ ExistsCheck
    \/ CheckPermissions
    \/ EvaluateAuthorization
    \/ EvaluateAuthorizationError
    \/ CheckPermissionsDone
    \/ RunForecaster
    \/ NoForecaster
    \/ AppendForecast
    \/ Report
    \/ Exit

Spec == Init /\ [][Next]_vars

-----------------------------------------------------------------------------
(* predict is run again on the template that the first run has rewritten *)

\* dc.Params of the runs: the value of "Name" is the key of another parameter.
RerunConfigs ==
    { << [ParameterKey |-> "Name", ParameterValue |-> "Other"],
         [ParameterKey |-> "Other", ParameterValue |-> "o"] >> }

InitRerun ==
    /\ resources \in Templates
    /\ dc \in RerunConfigs
    /\ stackExists = FALSE
    /\ callerArn \in {arn \in CallerArns : arn.tokens \in {0, 6}}
    /\ SkipIAM \in BOOLEAN
    /\ ResourceType \in {"", S3Bucket}
    /\ all = FALSE
    /\ pc = "predict"
    /\ i = 0
    /\ LineNumber = 0
    /\ forecast = makeForecast("", 0)
    /\ fc = EmptyForecast
    /\ permIdx = 0
    /\ ret = EmptyForecast
    /\ output = <<>>
    /\ result = "none"
    /\ exitCode = -1
    /\ steps = [n \in 1..MaxRes |-> <<>>]
    /\ added = <<>>
    /\ permErr = {}
    /\ estimates = [n \in 1..MaxRes |-> NoEstimate]
    /\ parsed = resources
    /\ run = 1
    /\ first = NoRun
    /\ CfnIdle

\* predict has returned and is called again with the same arguments: the
\* template is the one the first run left, and so is the package's LineNumber.
Rerun ==
    /\ pc = "returned"
    /\ run = 1
    /\ first' = [resources |-> resources, added |-> added, permErr |-> permErr,
                 forecast |-> forecast, result |-> result, steps |-> steps]
    /\ run' = 2
    /\ pc' = "predict"
    /\ i' = 0
    /\ forecast' = makeForecast("", 0)
    /\ fc' = EmptyForecast
    /\ permIdx' = 0
    /\ ret' = EmptyForecast
    /\ output' = <<>>
    /\ result' = "none"
    /\ steps' = [n \in 1..MaxRes |-> <<>>]
    /\ added' = <<>>
    /\ permErr' = {}
    /\ estimates' = [n \in 1..MaxRes |-> NoEstimate]
    /\ UNCHANGED <<resources, LineNumber, exitCode, flags, parsed, cfnVars>>

NextRerun == Next \/ Rerun

SpecRerun == InitRerun /\ [][NextRerun]_vars

-----------------------------------------------------------------------------
(* Vocabulary of the properties *)

Terminated == pc \in {"exit", "panic"}

\* predict has returned.
Returned == pc \in {"returned", "exit"}

\* forecastForType has returned for resource n.
Dispatched(n) == n < i \/ (n = i /\ pc = "append")

\* The result of forecastForType for resource n was appended to the top level.
Accumulated(n) == n < i

\* The messages the checks of resource n recorded, failed or passed ones.
AddedOf(n, passed) ==
    LET Mine(e) == e.res = n /\ e.passed = passed
        log == SelectSeq(added, Mine)
    IN  [k \in 1..Len(log) |-> log[k].msg]

TopList(passed) == IF passed THEN forecast.Passed ELSE forecast.Failed

\* The messages of resource n in the top-level forecast.
TopOf(n, passed) ==
    LET Mine(m) == m.logicalId = n
    IN  SelectSeq(TopList(passed), Mine)

\* Everything the checks of resource n recorded is in the top-level forecast.
Kept(n) == \A passed \in BOOLEAN : TopOf(n, passed) = AddedOf(n, passed)

\* Nothing of resource n is in the top-level forecast.
Dropped(n) == \A passed \in BOOLEAN : TopOf(n, passed) = <<>>

SomeFailureRecorded == \E k \in 1..Len(added) : ~added[k].passed

-----------------------------------------------------------------------------
(* C1 .. C4: failures, and errors of the policy evaluation *)

\* C1: if any check of any resource recorded a failure, predict returns
\* false and the process exits with a non-zero status.
C1_AnyFailureFailsVerdict ==
    SomeFailureRecorded =>
        /\ (Returned => result = "false")
        /\ (pc = "exit" => exitCode # 0)

\* C2: an error of the policy evaluation for one resource is isolated to
\* that resource: the run is not aborted by it (a later panic is about a
\* resource without Type), what the other resources accumulated in the
\* top-level forecast stays there unchanged, and every later resource is
\* still dispatched and, unless its own evaluation errors, accumulated.
C2_ErrorIsolated ==
    permErr # {} =>
        /\ (pc = "panic" => (i <= NumResources /\ r.Type = NoType))
        /\ \A n \in 1..NumResources :
               (Accumulated(n) /\ n \notin permErr) => Kept(n)
        /\ (Returned =>
               \A n \in 1..NumResources :
                  /\ Accumulated(n)
                  /\ (~FilteredOut(ResourceType, resources.Content[n].Type)
                         => steps[n] # <<>>))

\* C2 witness: the evaluation errored for resource 1, and resource 2 was
\* checked afterwards and its messages are in the top-level forecast.
C2_Witness ==
    /\ pc = "exit"
    /\ permErr = {1}
    /\ NumResources = 2
    /\ AddedOf(2, TRUE) \o AddedOf(2, FALSE) # <<>>
    /\ Kept(2)

\* C3 as stated: once the error return of a resource is accumulated, the
\* top-level forecast is empty.
C3_TopLevelEmptyAfterError ==
    (pc = "loop" /\ (i - 1) \in permErr) => GetNumChecked(forecast) = 0

\* C3 amended: the error discards what was collected for that resource
\* only: forecastForType returns an empty Forecast for it and nothing of it
\* reaches the top-level forecast, while the messages of the resources
\* before it stay in the top-level forecast.
C3_OnlyThatResourceDiscarded ==
    /\ (pc = "append" /\ i \in permErr) => GetNumChecked(ret) = 0
    /\ \A n \in permErr :
           /\ Dropped(n)
           /\ \A m \in 1..(n - 1) : m \notin permErr => Kept(m)

\* C3 witness: the evaluation errored for resource 2 after its existence
\* check, and the top-level forecast still holds the messages of resource 1.
C3_Witness ==
    /\ pc = "loop"
    /\ i = 3
    /\ permErr = {2}
    /\ AddedOf(2, TRUE) \o AddedOf(2, FALSE) # <<>>
    /\ GetNumChecked(forecast) > 0
    /\ Kept(1)

\* C4: after an error of the policy evaluation for a resource, the
\* top-level forecast still holds an entry of that resource, in particular
\* the one its existence check recorded.
C4_ErrorNotDropped ==
    \A n \in permErr :
        Accumulated(n) =>
            \E passed \in BOOLEAN :
                \E k \in 1..Len(TopList(passed)) :
                    /\ TopList(passed)[k].logicalId = n
                    /\ TopList(passed)[k].message \in {"Already exists", "Does not exist"}

-----------------------------------------------------------------------------
(* C5 .. C7: the steps of forecastForType and the entries it returns *)

\* The steps the dispatch of a resource of the type is to run, in order.
ExpectedSteps(typeName) ==
    <<"resolveRefs", "exists">>
    \o (IF SkipIAM THEN <<>> ELSE <<"checkPermissions">>)
    \o (IF Found(typeName) THEN <<"forecaster">> ELSE <<>>)

\* C5: the dispatch of every resource that is checked runs, in this order
\* and each once, reference resolution, the existence check, the permission
\* check unless skipped, and the registered forecaster of its type if any.
C5_FixedOrder ==
    \A n \in 1..NumResources :
        /\ IsPrefix(steps[n], ExpectedSteps(resources.Content[n].Type))
        /\ (Dispatched(n) /\ ~FilteredOut(ResourceType, resources.Content[n].Type))
              => steps[n] = ExpectedSteps(resources.Content[n].Type)

\* C6 as stated: without a registered forecaster and with --skip-iam, the
\* dispatch returns exactly one entry, whatever the other flags are.
C6_OneEntryWhateverFlags ==
    (pc = "append" /\ SkipIAM /\ ~Found(fc.TypeName)) => GetNumChecked(ret) = 1

\* C6 amended: without a registered forecaster and with --skip-iam, the
\* dispatch of a resource that the --type filter does not exclude returns
\* exactly one entry, that of the existence check, whatever the probe
\* answers; the dispatch of an excluded resource returns no entry.
C6_OneEntryUnlessFiltered ==
    (pc = "append" /\ SkipIAM /\ ~Found(fc.TypeName)) =>
        IF ResourceType # "" /\ ResourceType # fc.TypeName
        THEN GetNumChecked(ret) = 0
        ELSE /\ GetNumChecked(ret) = 1
             /\ \A m \in {ret.Passed[k] : k \in 1..Len(ret.Passed)} :
                    m.message = "Does not exist"
             /\ \A m \in {ret.Failed[k] : k \in 1..Len(ret.Failed)} :
                    m.message = "Already exists"

\* C6 witness: such a dispatch returned the failed entry of the existence
\* check while a filter naming the resource's type was set.
C6_Witness ==
    /\ pc = "append"
    /\ SkipIAM
    /\ ~Found(fc.TypeName)
    /\ ResourceType = fc.TypeName
    /\ Len(ret.Failed) = 1
    /\ Len(ret.Passed) = 0

\* C7: without a registered forecaster and with the permission check
\* enabled, the dispatch of a checked resource returns exactly 1 + K
\* entries, K the number of authorization actions its type and action need.
C7_OnePlusK ==
    (pc = "append" /\ ~SkipIAM /\ ~Found(fc.TypeName)
        /\ ~FilteredOut(ResourceType, fc.TypeName))
    => GetNumChecked(ret) = 1 + Len(RequiredActions(fc.TypeName, Action))

-----------------------------------------------------------------------------
(* C8: the top-level forecast is the concatenation in document order *)

\* The messages of list are grouped by resource, in document order.
DocumentOrder(list) ==
    \A a, b \in 1..Len(list) : a < b => list[a].logicalId <= list[b].logicalId

\* The top-level messages of each resource are in the order in which its
\* checks recorded them, none twice, none missing.
RecordingOrder ==
    \A n \in 1..NumResources :
        IF Accumulated(n) /\ n \notin permErr THEN Kept(n) ELSE Dropped(n)

\* C8: resources are accumulated one at a time in document order: in the
\* top-level Failed list and in the Passed list the messages of an earlier
\* resource precede those of a later one, the messages of one resource keep
\* their order, and no step removes, reorders or deduplicates what was
\* accumulated: each list only grows at its end.
C8_ConcatenationInDocumentOrder ==
    /\ [](DocumentOrder(forecast.Failed) /\ DocumentOrder(forecast.Passed)
            /\ RecordingOrder)
    /\ [][/\ IsPrefix(forecast.Failed, forecast'.Failed)
           /\ IsPrefix(forecast.Passed, forecast'.Passed)]_vars

\* C8 witness: two resources were accumulated, the first with two failed
\* messages, the second with a failed message, and both with passed ones.
C8_Witness ==
    /\ pc = "exit"
    /\ Len(TopOf(1, FALSE)) >= 2
    /\ Len(TopOf(2, FALSE)) >= 1
    /\ Len(TopOf(1, TRUE)) >= 1
    /\ Len(TopOf(2, TRUE)) >= 1

-----------------------------------------------------------------------------
(* C9, C10: fatal errors *)

EmptyResources == resources.present /\ NumResources = 0

NoReport == output = <<>> /\ result = "none"

\* C9 as stated: a run on a template whose Resources section is empty
\* aborts: it produces no report and never ends with a success verdict.
C9_EmptyResourcesAbort ==
    EmptyResources => (NoReport /\ (Terminated => pc = "panic"))

\* C9 amended: a run on a template without a Resources section aborts with
\* no result, no report and a non-zero status; a run on a template whose
\* Resources section is present and empty does not abort: it reports
\* success for 0 checks and exits with status 0.
C9_MissingAbortsEmptySucceeds ==
    /\ ~resources.present =>
          /\ NoReport
          /\ forecast = makeForecast("", 0)
          /\ pc \in {"predict", "panic"}
          /\ (pc = "panic" => exitCode = 2)
    /\ EmptyResources =>
          /\ pc # "panic"
          /\ (Returned =>
                 /\ result = "true"
                 /\ output[1] = OutLine("clear", 0, 0, NoMsg)
                 /\ Len(output) = 1)
          /\ (pc = "exit" => exitCode = 0)

\* C9 witness: the run on an empty Resources section has exited.
C9_Witness == EmptyResources /\ pc = "exit" /\ result = "true"

\* The caller identity cannot be resolved or has not exactly 6 tokens.
BadIdentity == callerArn.err \/ callerArn.tokens < 6 \/ callerArn.tokens > 6

NothingChecked == added = <<>> /\ \A n \in 1..MaxRes : steps[n] = <<>>

\* C10 as stated: with such an identity every run aborts before any
\* resource is processed and produces no report, whatever the template.
C10_BadIdentityAbortsAlways ==
    BadIdentity => (NothingChecked /\ NoReport /\ (Terminated => pc = "panic"))

\* C10 amended: with such an identity no step of any resource ever runs,
\* and a run on a template with at least one resource (or without a
\* Resources section) aborts without a report; on a template with zero
\* resources the identity is never looked at and the run reports success.
C10_BadIdentityAbortsUnlessEmpty ==
    BadIdentity =>
        /\ NothingChecked
        /\ pc \in {"predict", "loop", "panic", "returned", "exit"}
        /\ ~EmptyResources => (NoReport /\ (Terminated => pc = "panic"))
        /\ EmptyResources => (Terminated => (pc = "exit" /\ result = "true"))

\* C10 witness: an identity of 7 tokens aborted the run at its first resource.
C10_Witness ==
    /\ callerArn.tokens = 7
    /\ pc = "panic"
    /\ NumResources >= 1
    /\ i = 1
    /\ resources.Content[1].Type # NoType

-----------------------------------------------------------------------------
(* C11: structural template errors *)

StructuralError ==
    ~resources.present \/ \E n \in 1..NumResources : resources.Content[n].Type = NoType

\* C11: when the template has no Resources section or some resource at any
\* position has no Type, the run aborts and nothing is reported: no failure
\* or pass message, no summary, no verdict, also when earlier resources
\* were checked and accumulated results.
C11_StructuralErrorNoReport ==
    StructuralError =>
        /\ NoReport
        /\ pc \notin {"returned", "exit"}
        /\ (pc = "panic" => exitCode = 2)

\* C11 witness: the second resource has no Type; the first one was checked
\* and its messages were accumulated before the run aborted.
C11_Witness ==
    /\ pc = "panic"
    /\ i = 2
    /\ r.Type = NoType
    /\ GetNumFailed(forecast) > 0
    /\ GetNumPassed(forecast) > 0
    /\ output = <<>>

-----------------------------------------------------------------------------
(* C12: reference resolution, tried on Properties trees of bounded depth *)

Leaves == {Scalar("x"), Ref("Name"), Ref("Other")}

RECURSIVE NodesOfDepth(_)
NodesOfDepth(d) ==
    IF d = 0 THEN Leaves
    ELSE LET S == NodesOfDepth(d - 1)
         IN  S \cup {Mapping(<<Scalar("k"), a>>) : a \in S}
               \cup {Sequence(<<a, b>>) : a, b \in S}

PropertiesTrees ==
    {Mapping(<<Scalar("P"), a, Scalar("Q"), Ref("Name")>>) : a \in NodesOfDepth(MaxDepth)}

ParamSets ==
    { <<>>,
      << [ParameterKey |-> "Name", ParameterValue |-> "my-bucket"] >>,
      << [ParameterKey |-> "Other", ParameterValue |-> "o"],
         [ParameterKey |-> "Name", ParameterValue |-> "my-bucket"] >> }

\* forecastForType is entered for the only resource of a template, a bucket
\* with one of the Properties trees, under one of the parameter sets.
InitResolve ==
    /\ resources \in {[present |-> TRUE,
                        Content |-> <<Resource(1, <<S3Bucket, t>>)>>] : t \in PropertiesTrees}
    /\ dc \in ParamSets
    /\ stackExists = FALSE
    /\ callerArn = [err |-> FALSE, tokens |-> 6]
    /\ SkipIAM = TRUE
    /\ ResourceType = ""
    /\ all = FALSE
    /\ pc = "forecastForType"
    /\ i = 1
    /\ LineNumber = KeyLine(1)
    /\ forecast = makeForecast("", 0)
    /\ fc = makeForecast(S3Bucket, 1)
    /\ permIdx = 0
    /\ ret = EmptyForecast
    /\ output = <<>>
    /\ result = "none"
    /\ exitCode = -1
    /\ steps = [n \in 1..MaxRes |-> <<>>]
    /\ added = <<>>
    /\ permErr = {}
    /\ estimates = [n \in 1..MaxRes |-> NoEstimate]
    /\ parsed = resources
    /\ run = 1
    /\ first = NoRun
    /\ CfnIdle

SpecResolve == InitResolve /\ [][ResolveRefs]_vars

\* The node is a reference to a parameter: {Ref: name}.
IsRef(n) ==
    /\ n.Kind = "MappingNode"
    /\ Len(n.Content) = 2
    /\ n.Content[1].Value = "Ref"
    /\ n.Content[2].Kind = "ScalarNode"

Present(params, name) == \E k \in DOMAIN params : params[k].ParameterKey = name

ValueOf(params, name) ==
    (CHOOSE p \in {params[k] : k \in DOMAIN params} : p.ParameterKey = name).ParameterValue

\* What the claim says the node is after resolution: a reference to a
\* parameter that is set is the literal of its value, a reference to one
\* that is not set is the reference still, and every other node is changed
\* only below it.
RECURSIVE Resolved(_, _)
Resolved(n, params) ==
    IF IsRef(n)
    THEN IF Present(params, n.Content[2].Value)
         THEN Scalar(ValueOf(params, n.Content[2].Value))
         ELSE n
    ELSE IF n.Kind \in {"MappingNode", "SequenceNode"}
    THEN [n EXCEPT !.Content = [k \in 1..Len(n.Content) |-> Resolved(n.Content[k], params)]]
    ELSE n

\* C12: after resolution every reference under the Properties, at any depth
\* through mappings and sequences, to a parameter that is set is the
\* literal of its value, every reference to a parameter that is not set is
\* unchanged, and no other node is changed.
C12_ReferencesResolved ==
    pc = "exists" => r.Properties = Resolved(parsed.Content[i].Properties, dc)

\* C12 witness: a reference to the set parameter and one to the unset
\* parameter, in a sequence in a mapping, were resolved and left alone.
C12_Witness ==
    /\ pc = "exists"
    /\ Len(dc) = 1
    /\ parsed.Content[1].Properties.Content[2] =
           Mapping(<<Scalar("k"), Sequence(<<Ref("Name"), Ref("Other")>>)>>)
    /\ r.Properties.Content[2] =
           Mapping(<<Scalar("k"), Sequence(<<Scalar("my-bucket"), Ref("Other")>>)>>)
    /\ r.Properties.Content[4] = Scalar("my-bucket")

-----------------------------------------------------------------------------
(* C13: two runs in a row *)

\* C13: when predict has run twice on the same parsed template, with the
\* same deploy configuration and flags and with the same answer of every
\* external probe to the same query, the second run has classified every
\* check as the first did: the same checks recorded the same passes and
\* failures in the same order, the top-level forecast and the verdict are
\* the same, and the second run resolved the properties to what the first
\* run had made of them.
C13_SecondRunSame ==
    (run = 2 /\ Returned) =>
        /\ added = first.added
        /\ permErr = first.permErr
        /\ steps = first.steps
        /\ forecast = first.forecast
        /\ result = first.result
        /\ resources = first.resources

\* C13 witness: the second run has ended on a template whose references the
\* first run had rewritten, with passes and failures and an evaluation error.
C13_Witness ==
    /\ run = 2
    /\ pc = "exit"
    /\ resources # parsed
    /\ NumResources = 2
    /\ permErr # {}
    /\ GetNumFailed(forecast) > 0
    /\ GetNumPassed(forecast) > 0

-----------------------------------------------------------------------------
(* C14: the existence check *)

\* The entries the existence check of resource n recorded.
ExistsEntries(n) ==
    LET Mine(e) == e.res = n /\ e.msg.message \in {ExistsMessage(TRUE), ExistsMessage(FALSE)}
    IN  SelectSeq(added, Mine)

ExistsFailed(n) == \E k \in 1..Len(ExistsEntries(n)) : ~ExistsEntries(n)[k].passed

\* C14: the existence check of a resource records exactly one entry, a
\* failure "Already exists" or a pass "Does not exist"; when it recorded a
\* failure, the run is not aborted (a later panic is about a resource
\* without Type), the dispatch of that resource goes on to run the
\* permission check unless skipped and the registered forecaster, and every
\* later resource is dispatched and, unless filtered out, checked.
C14_ExistsAdvisory ==
    \A n \in 1..NumResources :
        /\ ("exists" \in {steps[n][k] : k \in 1..Len(steps[n])}
               => /\ Len(ExistsEntries(n)) = 1
                  /\ ExistsEntries(n)[1].passed
                         <=> ExistsEntries(n)[1].msg.message = ExistsMessage(FALSE))
        /\ ExistsFailed(n) =>
              /\ (pc = "panic" => (i <= NumResources /\ r.Type = NoType))
              /\ (Dispatched(n) => steps[n] = ExpectedSteps(resources.Content[n].Type))
              /\ (Returned =>
                     \A m \in (n + 1)..NumResources :
                        /\ Accumulated(m)
                        /\ (~FilteredOut(ResourceType, resources.Content[m].Type)
                               => steps[m] # <<>>))

-----------------------------------------------------------------------------
(* C15: the verdict, the exit status and the report *)

\* The messages of the printed lines of the kind, in the order printed.
Emitted(kind) ==
    LET Mine(l) == l.kind = kind
        lines == SelectSeq(output, Mine)
    IN  [k \in 1..Len(lines) |-> lines[k].msg]

\* C15: predict returns true exactly when the top-level forecast has no
\* failed message at the end of the resource loop, and the process exits
\* with a non-zero status exactly when predict returned false; on failure
\* the failure messages printed are those of the top-level forecast in
\* their order; pass messages are printed only with --all.
C15_VerdictAndReport ==
    /\ Returned =>
          /\ (result = "true") <=> (GetNumFailed(forecast) = 0)
          /\ (result = "false") <=> (GetNumFailed(forecast) # 0)
          /\ (result = "false" => Emitted("failed") = forecast.Failed)
          /\ (result = "true" => Emitted("failed") = <<>>)
          /\ (~all => Emitted("passed") = <<>>)
          /\ (all => Emitted("passed") = forecast.Passed)
    /\ (pc = "exit" => ((exitCode # 0) <=> (result = "false")))

\* C15 witness: the process exited with status 1 after a report with --all
\* that printed two failure messages and a pass message.
C15_Witness ==
    /\ pc = "exit"
    /\ exitCode = 1
    /\ result = "false"
    /\ all
    /\ Len(Emitted("failed")) >= 2
    /\ Len(Emitted("passed")) >= 1
    /\ Emitted("failed")[1] # Emitted("failed")[2]

-----------------------------------------------------------------------------
(* C16: the counts of a Forecast *)

Count(b) == IF b THEN 1 ELSE 0

\* The passes or failures among the entries that the step recorded.
Recorded(log, logAfter, passed) ==
    Cardinality({k \in (Len(log) + 1)..Len(logAfter) : logAfter[k].passed = passed})

\* A step of the existence check or of the permission check calls Add once;
\* a step of the registered forecaster appends what the function returns to
\* the forecast of the resource; the loop appends the forecast that
\* forecastForType returned to the top-level forecast.
C16_Step ==
    /\ GetNumChecked(fc') = GetNumPassed(fc') + GetNumFailed(fc')
    /\ GetNumChecked(forecast') = GetNumPassed(forecast') + GetNumFailed(forecast')
    /\ (pc \in {"exists", "evaluate"} /\ added' # added) =>
          /\ Len(added') = Len(added) + 1
          /\ GetNumPassed(fc') = GetNumPassed(fc) + Count(added'[Len(added')].passed)
          /\ GetNumFailed(fc') = GetNumFailed(fc) + Count(~added'[Len(added')].passed)
          /\ GetNumChecked(fc') = GetNumChecked(fc) + 1
    /\ (pc = "forecaster" /\ Found(fc.TypeName)) =>
          /\ GetNumPassed(fc') = GetNumPassed(fc) + Recorded(added, added', TRUE)
          /\ GetNumFailed(fc') = GetNumFailed(fc) + Recorded(added, added', FALSE)
          /\ GetNumChecked(fc') = GetNumChecked(fc) + Len(added') - Len(added)
    /\ (pc = "append") =>
          /\ GetNumPassed(forecast') = GetNumPassed(forecast) + GetNumPassed(ret)
          /\ GetNumFailed(forecast') = GetNumFailed(forecast) + GetNumFailed(ret)
          /\ GetNumChecked(forecast') = GetNumChecked(forecast) + GetNumChecked(ret)

\* C16: of the forecast of each resource and of the top-level forecast the
\* number checked is the number passed plus the number failed; each Add
\* makes exactly one of the two numbers greater by one, and Append makes
\* them greater by the numbers of the forecast that is appended.
C16_Counts == [][C16_Step]_vars

\* C16 witness: the forecasts of two resources, with passes and failures
\* from Add and from the forecaster's Append, were appended to the top level.
C16_Witness ==
    /\ pc = "loop"
    /\ i = 3
    /\ GetNumFailed(forecast) >= 2
    /\ GetNumPassed(forecast) >= 2
    /\ GetNumChecked(forecast) = Len(added)
    /\ \E k \in 1..Len(added) : added[k].msg.message = ForecasterMessage(2)

-----------------------------------------------------------------------------
(* C17: the action of the run *)

\* The action of the run, as the claim has it.
RunAction == IF stackExists THEN "Update" ELSE "Create"

\* The messages the permission check can record for a type under an action.
PermissionMessages(typeName, action) ==
    {PermissionMessage(allowed, RequiredActions(typeName, action)[k]) :
        allowed \in BOOLEAN, k \in 1..Len(RequiredActions(typeName, action))}

\* The messages by type and action, and all of them.
PermissionMessagesOf ==
    [t \in {S3Bucket, SNSTopic}, a \in {"Create", "Update"} |-> PermissionMessages(t, a)]

AllPermissionMessages ==
    UNION {PermissionMessagesOf[t, a] : t \in {S3Bucket, SNSTopic}, a \in {"Create", "Update"}}

IsPermissionMessage(m) == m \in AllPermissionMessages

\* C17: every resource of a run is handled with the same action, Update
\* when the target stack exists and Create otherwise, whatever its type, its
\* properties and the outcomes of its checks: the action its estimate was
\* looked up with, the action its permissions were checked for, and the
\* action of the total estimate.
C17_OneActionPerRun ==
    /\ \A n \in 1..MaxRes :
          estimates[n] # NoEstimate =>
              /\ estimates[n].action = RunAction
              /\ estimates[n].est = ResourceEstimate(resources.Content[n].Type, RunAction)
    /\ \A k \in 1..Len(added) :
          IsPermissionMessage(added[k].msg.message) =>
              added[k].msg.message \in PermissionMessagesOf[added[k].msg.typeName, RunAction]
    /\ (Returned /\ result = "true") =>
          output[1].m = SumEstimates(resources.Content, RunAction, 1)

\* C17 witness: the stack exists, and a bucket that exists already and a
\* topic that does not were both handled as updates, permissions included.
C17_Witness ==
    /\ pc = "exit"
    /\ stackExists
    /\ NumResources = 2
    /\ resources.Content[1].Type = S3Bucket
    /\ resources.Content[2].Type = SNSTopic
    /\ estimates[1].action = "Update"
    /\ estimates[2].action = "Update"
    /\ ExistsFailed(1)
    /\ ~ExistsFailed(2)
    /\ \E k \in 1..Len(added) : added[k].res = 2 /\ IsPermissionMessage(added[k].msg.message)

-----------------------------------------------------------------------------
(* C18: the estimates *)

\* The sum of the estimates of the resources from k on, each as
\* forecastForType takes it: 1 second when the table has no entry.
RECURSIVE SumOfResourceEstimates(_, _)
SumOfResourceEstimates(content, k) ==
    IF k > Len(content) THEN 0
    ELSE ResourceEstimate(content[k].Type, RunAction) + SumOfResourceEstimates(content, k + 1)

UnknownToTable(n) == EstimateErr(resources.Content[n].Type, RunAction)

\* What the checks record: the messages of the existence check, of the
\* permission check and of the forecasters.
IsCheckMessage(m) ==
    \/ m \in {ExistsMessage(TRUE), ExistsMessage(FALSE)}
    \/ IsPermissionMessage(m)
    \/ m \in {ForecasterMessage(1), ForecasterMessage(2)}

-----------------------------------------------------------------------------
(* C19: the --type filter *)

\* The filter is not empty and is not the type of resource n.
Excluded(n) == ResourceType # "" /\ ResourceType # resources.Content[n].Type

\* C19: a resource whose type a non-empty filter differs from is not
\* checked: none of its steps runs, it records no entry, nothing of it is in
\* the top-level forecast and its Properties stay as parsed; with an empty
\* filter or one that equals its type, the resource is checked as without a
\* filter: its references are resolved, its existence is checked with one
\* entry, and unless the policy evaluation errors all the steps of its type
\* run.
C19_TypeFilter ==
    \A n \in 1..NumResources :
        /\ Excluded(n) =>
              /\ steps[n] = <<>>
              /\ estimates[n] = NoEstimate
              /\ \A passed \in BOOLEAN : AddedOf(n, passed) = <<>>
              /\ Dropped(n)
              /\ resources.Content[n].Properties = parsed.Content[n].Properties
        /\ (~Excluded(n) /\ Dispatched(n)) =>
              /\ IsPrefix(<<"resolveRefs", "exists">>, steps[n])
              /\ resources.Content[n].Properties = resolveRefs(parsed.Content[n].Properties, dc)
              /\ Len(ExistsEntries(n)) = 1
              /\ (n \notin permErr => steps[n] = ExpectedSteps(resources.Content[n].Type))
              /\ ((n \notin permErr /\ Accumulated(n)) => Kept(n))

\* C19 witness: under a filter, a bucket with references was passed over
\* and a resource of the filter's type was checked.
C19_Witness ==
    /\ pc = "exit"
    /\ NumResources = 2
    /\ Excluded(1)
    /\ resources.Content[1].Properties = PropsRefs
    /\ ~Excluded(2)
    /\ steps[2] = ExpectedSteps(resources.Content[2].Type)
    /\ GetNumChecked(forecast) > 0

\* C19 witness, the other case: the filter is the type of a bucket, whose
\* references were resolved and whose checks are in the top-level forecast.
C19_WitnessSameType ==
    /\ pc = "exit"
    /\ NumResources >= 1
    /\ ResourceType = S3Bucket
    /\ resources.Content[1].Type = S3Bucket
    /\ resources.Content[1].Properties # PropsRefs
    /\ TopOf(1, TRUE) # <<>>

-----------------------------------------------------------------------------
(* C20: the line of the message of the existence check *)

\* Every message of an existence check carries the line of the logical id
\* of its resource; every one carries the line of the node of its resource.
ExistsLinesAreKeyLines ==
    \A n \in 1..NumResources : \A k \in 1..Len(ExistsEntries(n)) :
        ExistsEntries(n)[k].msg.line = resources.Content[n].keyLine

ExistsLinesAreNodeLines ==
    \A n \in 1..NumResources : \A k \in 1..Len(ExistsEntries(n)) :
        ExistsEntries(n)[k].msg.line = resources.Content[n].Line

\* C20: the message of the existence check of a resource carries the same
\* source line of that resource whether the check passed or failed (the
\* line of its logical id in every message, or the line of its node in
\* every message), and never a line of another resource.
C20_ExistsLineSame ==
    /\ ExistsLinesAreKeyLines \/ ExistsLinesAreNodeLines
    /\ \A n \in 1..NumResources : \A k \in 1..Len(ExistsEntries(n)) :
          ExistsEntries(n)[k].msg.line \in
              {resources.Content[n].keyLine, resources.Content[n].Line}

-----------------------------------------------------------------------------
(* C21: CreateChangeSet *)

\* The name of the status ends in an underscore and the word.
EndsIn(status, word) == Len(status) >= 2 /\ status[Len(status)] = word

\* A stack of the account has the name and a live status.
LiveStackNamed(name) ==
    \E k \in 1..Len(account) :
        account[k].StackName = name /\ account[k].StackStatus \in liveStatuses

\* DescribeChangeSet showed a status with which the loop goes on.
ObservedPending ==
    /\ observed.err = "nil"
    /\ observed.status # FAILED
    /\ ~EndsIn(observed.status, "COMPLETE")

C21_Safety ==
    op = "CreateChangeSet" =>
        /\ (changeSet.present =>
               changeSet.type = IF LiveStackNamed(StackName) THEN "UPDATE" ELSE "CREATE")
        /\ (cerr = "ListStacks" => (~changeSet.present /\ cpc = "done"))
        /\ ((cpc = "done" /\ cerr = "nil") =>
               (observed.err = "nil" /\ EndsIn(observed.status, "COMPLETE")))
        /\ ((observed.err = "nil" /\ observed.status = FAILED) =>
               (cpc = "done" /\ cerr = "FAILED"))
        /\ (observed.err = "other" => (cpc = "done" /\ cerr = "DescribeChangeSet"))
        /\ (ObservedPending => (cpc = "DescribeChangeSet" /\ cerr = "nil"))

ChangeSetSettled ==
    /\ changeSet.present
    /\ (changeSet.status = FAILED \/ EndsIn(changeSet.status, "COMPLETE"))

\* C21: the change set that CreateChangeSet requests is of type UPDATE
\* exactly when a stack of the account has the name and a live status, and
\* of type CREATE otherwise; when the lookup of the stack errors, no change
\* set is made and the error is returned; CreateChangeSet returns without
\* error only after it saw a status ending in _COMPLETE, returns an error as
\* soon as it sees FAILED or DescribeChangeSet errors, and asks again after
\* any other status; and when the status comes to be FAILED or to end in
\* _COMPLETE and stays so, CreateChangeSet returns.
C21_CreateChangeSet ==
    /\ []C21_Safety
    /\ (<>[]ChangeSetSettled => <>(cpc = "done"))

\* C21 witness: the stack was found on the second page, the change set is
\* an UPDATE, and CreateChangeSet returned after it saw CREATE_COMPLETE.
C21_Witness ==
    /\ op = "CreateChangeSet"
    /\ cpc = "done"
    /\ cerr = "nil"
    /\ Len(fetched) >= 2
    /\ ~HasName(fetched[1], StackName)
    /\ changeSet.type = "UPDATE"
    /\ observed.status = CREATE_COMPLETE

-----------------------------------------------------------------------------
(* C22: ListStacks and StackExists *)

RECURSIVE Flatten(_)
Flatten(pages) ==
    IF pages = <<>> THEN <<>> ELSE Head(pages) \o Flatten(Tail(pages))

\* The stacks of the account that are not deleted, in the service's order.
NotDeleted ==
    LET Exists(st) == st.StackStatus # DELETE_COMPLETE
    IN  SelectSeq(account, Exists)

\* ListStacks was called, by StackExists or not, and has returned.
ListReturned ==
    /\ op \in {"ListStacks", "StackExists", "CreateChangeSet"}
    /\ cpc \notin {"idle", "ListStacks"}

\* C22: what ListStacks has in stacks is the concatenation of the pages it
\* was given, in their order, and these are the first pages of the stacks
\* that are not in DELETE_COMPLETE: none skipped, none twice. It asks for
\* another page only while the last page had a NextToken, and when it
\* returns without error it has them all. When a request errors it returns
\* at once, with the error and what the earlier pages held. StackExists
\* returns true exactly when a stack that ListStacks returned has the
\* name, and false with the error when ListStacks errored.
C22_ListStacks ==
    op \in {"ListStacks", "StackExists", "CreateChangeSet"} =>
        /\ stacks = Flatten(fetched)
        /\ IsPrefix(stacks, NotDeleted)
        /\ ((cpc = "ListStacks" /\ fetched # <<>>) => Len(stacks) < Len(NotDeleted))
        /\ ((ListReturned /\ cerr # "ListStacks") => stacks = NotDeleted)
        /\ (cerr = "ListStacks" => (cpc = "done" /\ ~existsRes))
        /\ ((op # "ListStacks" /\ ListReturned /\ cerr # "ListStacks") =>
               (existsRes <=> \E k \in 1..Len(NotDeleted) :
                                  NotDeleted[k].StackName = StackName))

\* C22 witness: StackExists returned true after three pages, the name on
\* the last only, and did not see the deleted stacks of the account.
C22_Witness ==
    /\ op = "StackExists"
    /\ cpc = "done"
    /\ cerr = "nil"
    /\ existsRes
    /\ Len(fetched) >= 2
    /\ ~HasName(fetched[1], StackName)
    /\ Len(stacks) < Len(account)

\* C22 witness, the error: the second request errored and ListStacks
\* returned the first page with the error.
C22_WitnessError ==
    /\ op = "ListStacks"
    /\ cpc = "done"
    /\ cerr = "ListStacks"
    /\ Len(fetched) = 1
    /\ stacks # <<>>
    /\ Len(stacks) < Len(NotDeleted)

-----------------------------------------------------------------------------
(* C23: WaitUntilStackExists and WaitUntilStackCreateComplete *)

\* DescribeStacks answered one stack without error.
ObservedOneStack == observed.err = "nil" /\ observed.n = 1

\* The status that was seen ends in _COMPLETE or in _FAILED.
ObservedSettled ==
    /\ ObservedOneStack
    /\ (EndsIn(observed.status, "COMPLETE") \/ EndsIn(observed.status, "FAILED"))

Waiting(f) == cpc = f /\ cerr = "nil"

ReturnedWith(e) == cpc = "done" /\ cerr = e

\* C23: WaitUntilStackCreateComplete has not returned while the status it
\* saw last ends neither in _COMPLETE nor in _FAILED; it returns without
\* error on the first status that does; it returns an error when
\* DescribeStacks errors or answers another number of stacks than one.
\* WaitUntilStackExists returns nil only after a DescribeStacks without
\* error, asks again after an API error, and returns any other error at once.
C23_Waiters ==
    /\ op = "WaitUntilStackCreateComplete" =>
          /\ (cpc = "done" => observed # NoAnswer)
          /\ ((ObservedOneStack /\ ~ObservedSettled) => Waiting("WaitUntilStackCreateComplete"))
          /\ (ObservedSettled => ReturnedWith("nil"))
          /\ (observed.err \in {"api", "other"} => ReturnedWith("DescribeStacks"))
          /\ ((observed.err = "nil" /\ observed.n # 1) => ReturnedWith("Stack not found"))
    /\ op = "WaitUntilStackExists" =>
          /\ (cpc = "done" => observed # NoAnswer)
          /\ (ReturnedWith("nil") => observed.err = "nil")
          /\ (observed.err = "nil" => ReturnedWith("nil"))
          /\ (observed.err = "api" => Waiting("WaitUntilStackExists"))
          /\ (observed.err = "other" => ReturnedWith("DescribeStacks"))

\* C23 witness: WaitUntilStackCreateComplete returned nil on a status that
\* ends in _FAILED.
C23_Witness ==
    /\ op = "WaitUntilStackCreateComplete"
    /\ ReturnedWith("nil")
    /\ observed.status = UPDATE_ROLLBACK_FAILED

\* C23 witnesses, the loops: WaitUntilStackCreateComplete goes on after a
\* status with _COMPLETE in the middle, WaitUntilStackExists after an API error.
C23_WitnessInProgress ==
    /\ Waiting("WaitUntilStackCreateComplete")
    /\ observed.status = UPDATE_COMPLETE_CLEANUP_IN_PROGRESS

C23_WitnessRetry ==
    /\ Waiting("WaitUntilStackExists")
    /\ observed.err = "api"

====
